---- MODULE Spec2Model ----
(***************************************************************************)
(* tutorial_poc.py: AgenticSeekClient (a requests.Session wrapper) and the *)
(* command-line dispatcher main().                                         *)
(*                                                                         *)
(* Python values are encoded as follows.  JSON / Python scalars are the    *)
(* strings "true", "false", "null", "0", "str:<text>".  A dict is a TLA+   *)
(* record; values returned by client methods are tagged: Dict(d),          *)
(* Bytes(b), None.  A call either returns (Return(v)) or lets an exception *)
(* of class cls escape (Raise(cls)).                                       *)
(***************************************************************************)
EXTENDS Integers, Sequences, FiniteSets, TLC

VARIABLES
    pc,             \* position of the single thread of control
    argv,           \* the command line: command word, positional args, --url
    env_url,        \* the environment variable AGENTIC_SEEK_URL
    base_url,       \* AgenticSeekClient.base_url
    requests,       \* every HTTP request handed to the session, in order
    last_call,      \* the latest client method call: op, exchange, result
    stdout,         \* what was printed, one tag per print group
    exit_code,      \* process exit status, NoExit while running
    files,          \* the file system at the paths a screenshot may go to
    health,         \* demo_interactive's local `health`
    clock,          \* time.time()
    start_time,     \* wait_for_completion's local `start_time`
    timeout,        \* wait_for_completion's parameter
    poll_interval,  \* wait_for_completion's parameter
    status,         \* wait_for_completion's local `status`
    result,         \* the return value of wait_for_completion
    hist            \* history of the wait: polls, sleeps, time spent in calls

vars == <<pc, argv, env_url, base_url, requests, last_call, stdout, exit_code,
          files, health, clock, start_time, timeout, poll_interval, status,
          result, hist>>

-----------------------------------------------------------------------------
(* Bounds of the model *)

MaxTimeout == 3
MaxPoll == 2
MaxCallTime == 1
MaxStartClock == 1

-----------------------------------------------------------------------------
(* Python values *)

None == [type |-> "None"]
Str(s) == [type |-> "str", v |-> s]
Dict(d) == [type |-> "dict", v |-> d]
Bytes(b) == [type |-> "bytes", v |-> b]

Return(v) == [tag |-> "return", value |-> v]
Raise(cls) == [tag |-> "raise", cls |-> cls]

\* bool(v) of a scalar
Truthy(v) == v \notin {"false", "null", "0", "str:"}

\* d.get(k, default) on a dict
Get(d, k, default) == IF k \in DOMAIN d THEN d[k] ELSE default

\* s.rstrip('/') on a string given as a sequence of tokens, "/" being one
RECURSIVE rstrip(_)
rstrip(s) ==
    IF s # <<>> /\ s[Len(s)] = "/" THEN rstrip(SubSeq(s, 1, Len(s) - 1)) ELSE s

\* " ".join(words)
RECURSIVE join(_)
join(words) ==
    IF words = <<>> THEN <<>>
    ELSE IF Len(words) = 1 THEN <<words[1]>>
    ELSE <<words[1], " ">> \o join(Tail(words))

-----------------------------------------------------------------------------
(* The remote service and the transport: what one HTTP exchange can yield *)

StatusCodes == {200, 304, 404, 503}

JsonObjects ==
    { [status |-> "str:ok"],
      [is_active |-> "true"],
      [is_active |-> "false"],
      [is_active |-> "null"],
      [error |-> "str:"],
      [error |-> "str:boom"],
      [answer |-> "str:42", is_active |-> "false"] }

JsonBodies == { [json |-> TRUE, v |-> o] : o \in JsonObjects }
NotJson == [json |-> FALSE]

ByteStrings == { <<>>, <<1>>, <<1, 2>> }

TransportFailures == { [kind |-> "ConnectionError"], [kind |-> "Timeout"] }

\* exchanges of the endpoints read with response.json()
JsonExchanges ==
    TransportFailures \cup
    { [kind |-> "response", status_code |-> s, body |-> b] :
        s \in StatusCodes, b \in JsonBodies \cup {NotJson} }

\* exchanges of /screenshot, read with response.content
ScreenshotExchanges ==
    TransportFailures \cup
    { [kind |-> "response", status_code |-> s, content |-> c] :
        s \in StatusCodes, c \in ByteStrings }

CallTimes == 0 .. MaxCallTime

-----------------------------------------------------------------------------
(* requests: exception classes, raise_for_status, json *)

\* the direct base class of an exception class of requests.exceptions
Base(cls) ==
    CASE cls = "HTTPError" -> "RequestException"
      [] cls = "ConnectionError" -> "RequestException"
      [] cls = "Timeout" -> "RequestException"
      [] cls = "JSONDecodeError" -> "InvalidJSONError"
      [] cls = "InvalidJSONError" -> "RequestException"
      [] cls = "RequestException" -> "OSError"
      [] cls = "FileNotFoundError" -> "OSError"
      [] cls = "OSError" -> "Exception"
      [] OTHER -> "BaseException"

RECURSIVE IsSubclass(_, _)
IsSubclass(cls, of) ==
    IF cls = of THEN TRUE
    ELSE IF cls = "BaseException" THEN FALSE
    ELSE IsSubclass(Base(cls), of)

\* str(e)
ErrorText(cls) ==
    CASE cls = "HTTPError" -> "str:Client or Server Error for url"
      [] cls = "ConnectionError" -> "str:Connection refused"
      [] cls = "Timeout" -> "str:Read timed out"
      [] OTHER -> "str:Expecting value"

\* response.raise_for_status() raises HTTPError
RaisesOn3xx(code) == 300 <= code /\ code < 600
raise_for_status(code) == 400 <= code /\ code < 600

\* the try body of _make_request: request, raise_for_status, json
RequestJson(x) ==
    IF x.kind # "response" THEN Raise(x.kind)
    ELSE IF raise_for_status(x.status_code) THEN Raise("HTTPError")
    ELSE IF ~x.body.json THEN Raise("JSONDecodeError")
    ELSE Return(Dict(x.body.v))

\* except requests.exceptions.HTTPError
CaughtAsHTTPError(cls) == IsSubclass(cls, "HTTPError")

\* except requests.exceptions.RequestException
CaughtOnlyTransport(cls) == cls \in {"ConnectionError", "Timeout"}
CaughtAsRequestException(cls) == IsSubclass(cls, "RequestException")

\* the envelope built for an HTTPError
HTTPErrorEnvelope(e, code) == Dict([error |-> ErrorText(e), status_code |-> code])

\* AgenticSeekClient._make_request, given what the exchange yields
make_request(x) ==
    LET r == RequestJson(x) IN
    IF r.tag = "return" THEN r
    ELSE IF CaughtAsHTTPError(r.cls)
         THEN Return(HTTPErrorEnvelope(r.cls, x.status_code))
    ELSE IF CaughtAsRequestException(r.cls)
         THEN Return(Dict([error |-> ErrorText(r.cls)]))
    ELSE r

-----------------------------------------------------------------------------
(* The client's requests *)

DefaultQueryTimeout == 300

\* keyword arguments that were not passed
NoJsonBody == [given |-> FALSE]
NoTimeout == [given |-> FALSE]

Request(method, endpoint, body, tmo) ==
    [method |-> method, url |-> base_url \o <<endpoint>>, json |-> body,
     timeout |-> tmo]

Endpoint(req) == req.url[Len(req.url)]
Endpoints(reqs) == [i \in 1 .. Len(reqs) |-> Endpoint(reqs[i])]

\* one of health_check, get_status, stop_agent, get_latest_answer, query:
\* the request is issued, the exchange x takes d seconds
Call(op, method, endpoint, body, tmo, x, d) ==
    /\ requests' = Append(requests, Request(method, endpoint, body, tmo))
    /\ last_call' = [op |-> op, exchange |-> x, result |-> make_request(x)]
    /\ clock' = clock + d

health_check(x) == Call("health_check", "GET", "/health", NoJsonBody, NoTimeout, x, 0)
get_status(x, d) == Call("get_status", "GET", "/is_active", NoJsonBody, NoTimeout, x, d)
stop_agent(x) == Call("stop_agent", "GET", "/stop", NoJsonBody, NoTimeout, x, 0)
get_latest_answer(x, d) ==
    Call("get_latest_answer", "GET", "/latest_answer", NoJsonBody, NoTimeout, x, d)
query(text, x) ==
    Call("query", "POST", "/query",
         [given |-> TRUE, v |-> [query |-> text]],
         [given |-> TRUE, v |-> DefaultQueryTimeout], x, 0)

\* `if save_path:`
ShouldSave(save_path) == save_path # None /\ save_path.v # ""

\* paths open(save_path, 'wb') can open, and paths in a directory that does
\* not exist, on which it raises FileNotFoundError
Paths == {"a"}
BadPaths == {"nodir/a"}

FileAbsent == [exists |-> FALSE]
FileWith(b) == [exists |-> TRUE, data |-> b]

\* the try body of get_screenshot: get, raise_for_status, open and write
ScreenshotUnchecked(save_path, x) ==
    IF x.kind # "response" THEN Raise(x.kind)
    ELSE IF ShouldSave(save_path) /\ save_path.v \in BadPaths
         THEN Raise("FileNotFoundError")
    ELSE Return(Bytes(x.content))
ScreenshotTry(save_path, x) ==
    IF x.kind # "response" THEN Raise(x.kind)
    ELSE IF raise_for_status(x.status_code) THEN Raise("HTTPError")
    ELSE IF ShouldSave(save_path) /\ save_path.v \in BadPaths
         THEN Raise("FileNotFoundError")
    ELSE Return(Bytes(x.content))

\* get_screenshot's `except requests.exceptions.RequestException`
ScreenshotCaught(cls) == IsSubclass(cls, "RequestException")

\* what get_screenshot returns or raises
ScreenshotResult(save_path, x) ==
    LET r == ScreenshotTry(save_path, x) IN
    IF r.tag = "return" THEN r
    ELSE IF ScreenshotCaught(r.cls) THEN Return(None)
    ELSE r

\* what get_screenshot prints
ScreenshotPrints(save_path, x) ==
    LET r == ScreenshotTry(save_path, x) IN
    IF r.tag = "return"
    THEN IF ShouldSave(save_path) THEN <<"Screenshot saved to">> ELSE <<>>
    ELSE IF ScreenshotCaught(r.cls) THEN <<"Failed to get screenshot">> ELSE <<>>

\* AgenticSeekClient.get_screenshot; `more` is what the caller prints next
get_screenshot(save_path, x, more) ==
    /\ requests' = Append(requests, Request("GET", "/screenshot", NoJsonBody, NoTimeout))
    /\ last_call' = [op |-> "get_screenshot", exchange |-> x,
                     result |-> ScreenshotResult(save_path, x)]
    /\ files' = IF ScreenshotTry(save_path, x).tag = "return" /\ ShouldSave(save_path)
                THEN [files EXCEPT ![save_path.v] = FileWith(x.content)]
                ELSE files
    /\ stdout' = stdout \o ScreenshotPrints(save_path, x) \o more

-----------------------------------------------------------------------------
(* The command line *)

DefaultUrl == <<"http://localhost:7777">>

Choices == {"demo", "health", "query", "status", "screenshot", "stop", "history"}
NoCommand == "<absent>"
CommandWords == Choices \cup {"bogus", NoCommand}

ArgLists == { <<>>, <<"">>, <<"a", "b">>, <<"nodir/a">> }

NoFlag == [given |-> FALSE]
Flag(u) == [given |-> TRUE, v |-> u]
Urls == { <<"http://a">>, <<"http://a", "/", "/">> }
EnvUrls == { <<"http://env">> }

NoExit == 0 - 1

\* args.command: nargs="?" with default "demo"
Command == IF argv.command = NoCommand THEN "demo" ELSE argv.command

\* args.url: default "http://localhost:7777"
ArgUrl(flag) == IF flag.given THEN flag.v ELSE DefaultUrl

\* `if not args.args:` of the query command
MissingTextUnchecked(args) == FALSE
QueryMissingText(args) == args = <<>>

\* the exit status of a run of main() that ended with return value / exception r
ExitNonzeroOnError(r) ==
    IF r.tag = "raise" THEN 1
    ELSE IF r.value.type = "dict" /\ "error" \in DOMAIN r.value.v THEN 1
    ELSE 0
ExitStatus(r) == IF r.tag = "return" THEN 0 ELSE 1

\* print_response(data, title), reached only when the call returned
print_response(r, title) ==
    stdout' = IF r.tag = "return" THEN Append(stdout, title) ELSE stdout

WaitVars == <<start_time, timeout, poll_interval, status, result, hist>>

NoCall == [op |-> "none"]
NoArgv == [command |-> NoCommand, args |-> <<>>, url |-> NoFlag]
NoStatus == Return(None)

Init ==
    /\ pc = "start"
    /\ argv = NoArgv
    /\ env_url \in {NoFlag} \cup { Flag(u) : u \in EnvUrls }
    /\ base_url = <<>>
    /\ requests = <<>>
    /\ last_call = NoCall
    /\ stdout = <<>>
    /\ exit_code = NoExit
    /\ files \in [Paths -> {FileAbsent, FileWith(<<7>>)}]
    /\ health = None
    /\ clock \in 0 .. MaxStartClock
    /\ start_time = 0
    /\ timeout = 0
    /\ poll_interval = 1
    /\ status = NoStatus
    /\ result = NoStatus
    /\ hist = [polls |-> 0, sleeps |-> 0, call_time |-> 0,
               all_busy |-> TRUE, all_down |-> TRUE]

\* parser.parse_args() and AgenticSeekClient(base_url=args.url)
main_parse_args ==
    /\ pc = "start"
    /\ \E command \in CommandWords, args \in ArgLists,
          url \in {NoFlag} \cup { Flag(u) : u \in Urls } :
         /\ command = NoCommand => args = <<>>
         /\ argv' = [command |-> command, args |-> args, url |-> url]
         /\ IF command \in Choices \cup {NoCommand}
            THEN /\ base_url' = rstrip(ArgUrl(url))
                 /\ pc' = "dispatch"
                 /\ exit_code' = exit_code
            ELSE /\ base_url' = base_url
                 /\ pc' = "exit"
                 /\ exit_code' = 2
    /\ UNCHANGED <<env_url, requests, last_call, stdout, files, health, clock>>
    /\ UNCHANGED WaitVars

main_health ==
    /\ pc = "dispatch" /\ Command = "health"
    /\ \E x \in JsonExchanges :
         /\ health_check(x)
         /\ print_response(make_request(x), "Response")
         /\ exit_code' = ExitStatus(make_request(x))
    /\ pc' = "exit"
    /\ UNCHANGED <<argv, env_url, base_url, files, health>>
    /\ UNCHANGED WaitVars

main_query ==
    /\ pc = "dispatch" /\ Command = "query"
    /\ IF QueryMissingText(argv.args)
       THEN /\ stdout' = stdout \o <<"Error: Query requires text argument",
                                     "Usage: python tutorial_poc.py query <text>">>
            /\ exit_code' = 1
            /\ UNCHANGED <<requests, last_call, clock>>
       ELSE \E x \in JsonExchanges :
              /\ query(join(argv.args), x)
              /\ print_response(make_request(x), "Response")
              /\ exit_code' = ExitStatus(make_request(x))
    /\ pc' = "exit"
    /\ UNCHANGED <<argv, env_url, base_url, files, health>>
    /\ UNCHANGED WaitVars

main_status ==
    /\ pc = "dispatch" /\ Command = "status"
    /\ \E x \in JsonExchanges :
         /\ get_status(x, 0)
         /\ print_response(make_request(x), "Response")
         /\ exit_code' = ExitStatus(make_request(x))
    /\ pc' = "exit"
    /\ UNCHANGED <<argv, env_url, base_url, files, health>>
    /\ UNCHANGED WaitVars

\* `path = args.args[0] if args.args else None`
SavePath == IF argv.args # <<>> THEN Str(argv.args[1]) ELSE None

main_screenshot ==
    /\ pc = "dispatch" /\ Command = "screenshot"
    /\ \E x \in ScreenshotExchanges :
         /\ get_screenshot(SavePath, x, <<>>)
         /\ exit_code' = ExitStatus(ScreenshotResult(SavePath, x))
    /\ pc' = "exit"
    /\ UNCHANGED <<argv, env_url, base_url, health, clock>>
    /\ UNCHANGED WaitVars

main_stop ==
    /\ pc = "dispatch" /\ Command = "stop"
    /\ \E x \in JsonExchanges :
         /\ stop_agent(x)
         /\ print_response(make_request(x), "Response")
         /\ exit_code' = ExitStatus(make_request(x))
    /\ pc' = "exit"
    /\ UNCHANGED <<argv, env_url, base_url, files, health>>
    /\ UNCHANGED WaitVars

main_history ==
    /\ pc = "dispatch" /\ Command = "history"
    /\ \E x \in JsonExchanges :
         /\ get_latest_answer(x, 0)
         /\ print_response(make_request(x), "Response")
         /\ exit_code' = ExitStatus(make_request(x))
    /\ pc' = "exit"
    /\ UNCHANGED <<argv, env_url, base_url, files, health>>
    /\ UNCHANGED WaitVars

-----------------------------------------------------------------------------
(* demo_interactive *)

SampleQuery == <<"Hello, how are you?">>

\* `if health.get("error"):` on the dict the health check returned
AbortsNever(h) == FALSE
DemoAborts(h) == Truthy(Get(h.v, "error", "null"))

\* the position after a demo step whose call returned / raised r
DemoNext(r, next) == IF r.tag = "return" THEN next ELSE "exit"
DemoExit(r, next) ==
    IF DemoNext(r, next) = "exit" THEN ExitStatus(r) ELSE exit_code

\* `if screenshot:` and the closing banner, when get_screenshot returned
DemoScreenshotPrints(r) ==
    IF r.tag = "raise" THEN <<>>
    ELSE IF r.value.type = "bytes" /\ r.value.v # <<>>
    THEN <<"Screenshot available", "Demo Complete!">>
    ELSE <<"No screenshot available", "Demo Complete!">>

demo_health ==
    /\ pc = "dispatch" /\ Command = "demo"
    /\ \E x \in JsonExchanges :
         LET r == make_request(x) IN
         /\ health_check(x)
         /\ stdout' = stdout \o <<"AgenticSeek API Interactive Demo">>
                      \o (IF r.tag = "return" THEN <<"Health Check">> ELSE <<>>)
                      \o (IF r.tag = "return" /\ DemoAborts(r.value)
                          THEN <<"Error: Could not connect to the API">> ELSE <<>>)
         /\ health' = IF r.tag = "return" THEN r.value ELSE health
         /\ LET next == IF r.tag = "return" /\ DemoAborts(r.value)
                        THEN "exit" ELSE "demo_status" IN
            /\ pc' = DemoNext(r, next)
            /\ exit_code' = DemoExit(r, next)
    /\ UNCHANGED <<argv, env_url, base_url, files>>
    /\ UNCHANGED WaitVars

demo_status ==
    /\ pc = "demo_status"
    /\ \E x \in JsonExchanges :
         /\ get_status(x, 0)
         /\ print_response(make_request(x), "Agent Status")
         /\ pc' = DemoNext(make_request(x), "demo_query")
         /\ exit_code' = DemoExit(make_request(x), "demo_query")
    /\ UNCHANGED <<argv, env_url, base_url, files, health>>
    /\ UNCHANGED WaitVars

demo_query ==
    /\ pc = "demo_query"
    /\ \E x \in JsonExchanges :
         /\ query(SampleQuery, x)
         /\ print_response(make_request(x), "Query Result")
         /\ pc' = DemoNext(make_request(x), "demo_latest_answer")
         /\ exit_code' = DemoExit(make_request(x), "demo_latest_answer")
    /\ UNCHANGED <<argv, env_url, base_url, files, health>>
    /\ UNCHANGED WaitVars

demo_latest_answer ==
    /\ pc = "demo_latest_answer"
    /\ \E x \in JsonExchanges :
         /\ get_latest_answer(x, 0)
         /\ print_response(make_request(x), "Latest Answer")
         /\ pc' = DemoNext(make_request(x), "demo_screenshot")
         /\ exit_code' = DemoExit(make_request(x), "demo_screenshot")
    /\ UNCHANGED <<argv, env_url, base_url, files, health>>
    /\ UNCHANGED WaitVars

demo_screenshot ==
    /\ pc = "demo_screenshot"
    /\ \E x \in ScreenshotExchanges :
         /\ get_screenshot(None, x, DemoScreenshotPrints(ScreenshotResult(None, x)))
         /\ exit_code' = ExitStatus(ScreenshotResult(None, x))
    /\ pc' = "exit"
    /\ UNCHANGED <<argv, env_url, base_url, health, clock>>
    /\ UNCHANGED WaitVars

-----------------------------------------------------------------------------
(* wait_for_completion, called on a client of its own *)

Timeouts == 0 .. MaxTimeout
PollIntervals == 1 .. MaxPoll

\* `while time.time() - start_time < timeout:`
LoopTestAbsolute == clock < timeout
LoopTest == clock - start_time < timeout

\* `if not status.get("is_active", True):`
NotBusyInverted(st) == Truthy(Get(st.v, "is_active", "true"))
NotBusyDefaultFalse(st) == ~Truthy(Get(st.v, "is_active", "false"))
NotBusy(st) == ~Truthy(Get(st.v, "is_active", "true"))

\* the poll's result is a dict whose is_active is true
ReportsBusy(r) ==
    /\ r.tag = "return"
    /\ "is_active" \in DOMAIN r.value.v
    /\ r.value.v.is_active = "true"

\* AgenticSeekClient(base_url) and `start_time = time.time()`
wait_begin ==
    /\ pc = "start"
    /\ \E u \in Urls \cup {DefaultUrl}, t \in Timeouts, p \in PollIntervals :
         /\ base_url' = rstrip(u)
         /\ timeout' = t
         /\ poll_interval' = p
    /\ start_time' = clock
    /\ pc' = "wait_test"
    /\ UNCHANGED <<argv, env_url, requests, last_call, stdout, exit_code, files,
                   health, clock, status, result, hist>>

wait_test ==
    /\ pc = "wait_test"
    /\ IF LoopTest
       THEN /\ pc' = "wait_poll"
            /\ result' = result
       ELSE /\ pc' = "returned"
            /\ result' = Return(None)
    /\ UNCHANGED <<argv, env_url, base_url, requests, last_call, stdout, exit_code,
                   files, health, clock, start_time, timeout, poll_interval,
                   status, hist>>

wait_poll ==
    /\ pc = "wait_poll"
    /\ \E x \in JsonExchanges, d \in CallTimes :
         LET r == make_request(x) IN
         /\ get_status(x, d)
         /\ status' = r
         /\ hist' = [hist EXCEPT !.polls = @ + 1,
                                 !.call_time = @ + d,
                                 !.all_busy = @ /\ ReportsBusy(r),
                                 !.all_down = @ /\ x.kind # "response"]
         /\ IF r.tag = "raise"
            THEN /\ pc' = "returned"
                 /\ result' = r
            ELSE /\ pc' = IF NotBusy(r.value) THEN "wait_answer" ELSE "wait_sleep"
                 /\ result' = result
    /\ UNCHANGED <<argv, env_url, base_url, stdout, exit_code, files, health,
                   start_time, timeout, poll_interval>>

wait_answer ==
    /\ pc = "wait_answer"
    /\ \E x \in JsonExchanges, d \in CallTimes :
         /\ get_latest_answer(x, d)
         /\ result' = make_request(x)
         /\ hist' = [hist EXCEPT !.call_time = @ + d]
    /\ pc' = "returned"
    /\ UNCHANGED <<argv, env_url, base_url, stdout, exit_code, files, health,
                   start_time, timeout, poll_interval, status>>

\* time.sleep(poll_interval)
wait_sleep ==
    /\ pc = "wait_sleep"
    /\ clock' = clock + poll_interval
    /\ hist' = [hist EXCEPT !.sleeps = @ + 1]
    /\ pc' = "wait_test"
    /\ UNCHANGED <<argv, env_url, base_url, requests, last_call, stdout, exit_code,
                   files, health, start_time, timeout, poll_interval, status,
                   result>>

-----------------------------------------------------------------------------

Next ==
    \/ main_parse_args
    \/ main_health
    \/ main_query
    \/ main_status
    \/ main_screenshot
    \/ main_stop
    \/ main_history
    \/ demo_health
    \/ demo_status
    \/ demo_query
    \/ demo_latest_answer
    \/ demo_screenshot
    \/ wait_begin
    \/ wait_test
    \/ wait_poll
    \/ wait_answer
    \/ wait_sleep

Spec == Init /\ [][Next]_vars

-----------------------------------------------------------------------------
(* Vocabulary of the properties *)

JsonOps == {"health_check", "get_status", "stop_agent", "get_latest_answer", "query"}

Is2xx(code) == 200 <= code /\ code <= 299
Is4xx5xx(code) == 400 <= code /\ code <= 599

IsResponse(x) == x.kind = "response"

\* the exchange of the latest call, and the dict it returned
LastX == last_call.exchange
LastDict == last_call.result.value.v

ReturnedDict(r) == r.tag = "return" /\ r.value.type = "dict"

CliPcs == {"dispatch", "demo_status", "demo_query", "demo_latest_answer",
           "demo_screenshot", "exit"}
DemoPcs == CliPcs \ {"dispatch"}
InDemo == pc \in DemoPcs /\ argv.command \in {"demo", NoCommand}

DemoSequence == <<"/health", "/is_active", "/query", "/latest_answer", "/screenshot">>

IsPrefix(s, t) == Len(s) <= Len(t) /\ s = SubSeq(t, 1, Len(s))

StatusRequest == Request("GET", "/is_active", NoJsonBody, NoTimeout)
AnswerRequest == Request("GET", "/latest_answer", NoJsonBody, NoTimeout)

Elapsed == clock - start_time

-----------------------------------------------------------------------------
(* C1 *)

-----------------------------------------------------------------------------
(* C2 *)

\* the request failed, as the claim counts failures: anything but a 2xx
\* response with a JSON body
FailedNon2xx(x) == ~(IsResponse(x) /\ Is2xx(x.status_code) /\ x.body.json)

\* C2 as claimed: a failed request yields an envelope with an `error` key
\* that has `status_code` exactly when the failure was a non-2xx response.
C2_Original ==
    (last_call.op \in JsonOps /\ FailedNon2xx(LastX)) =>
        /\ ReturnedDict(last_call.result)
        /\ "error" \in DOMAIN LastDict
        /\ "status_code" \in DOMAIN LastDict
             <=> (IsResponse(LastX) /\ ~Is2xx(LastX.status_code))
        /\ (IsResponse(LastX) /\ ~Is2xx(LastX.status_code))
             => LastDict.status_code = LastX.status_code
        /\ LastX.kind = "ConnectionError" => DOMAIN LastDict = {"error"}

\* the request failed: no response, a 4xx/5xx response, or a body that is
\* not JSON
Failed(x) == ~IsResponse(x) \/ Is4xx5xx(x.status_code) \/ ~x.body.json

\* C2: for each of the five calls a failed request (connection failure,
\* timeout, 4xx/5xx response, or a response below 400 whose body is not JSON)
\* yields an envelope with an `error` key; the envelope has a `status_code`
\* key exactly when the response's status was 4xx or 5xx, and then it equals
\* that status; a connection failure yields an envelope whose only key is
\* `error`.
C2_ErrorEnvelope ==
    (last_call.op \in JsonOps /\ Failed(LastX)) =>
        /\ ReturnedDict(last_call.result)
        /\ "error" \in DOMAIN LastDict
        /\ "status_code" \in DOMAIN LastDict
             <=> (IsResponse(LastX) /\ Is4xx5xx(LastX.status_code))
        /\ (IsResponse(LastX) /\ Is4xx5xx(LastX.status_code))
             => LastDict.status_code = LastX.status_code
        /\ LastX.kind = "ConnectionError" => DOMAIN LastDict = {"error"}

C2_Witness ==
    /\ last_call.op = "stop_agent"
    /\ IsResponse(LastX) /\ LastX.status_code = 304 /\ ~LastX.body.json
    /\ ReturnedDict(last_call.result)
    /\ DOMAIN LastDict = {"error"}

-----------------------------------------------------------------------------
(* C3 *)

ReportsNotBusy(r) ==
    /\ ReturnedDict(r)
    /\ "is_active" \in DOMAIN r.value.v
    /\ r.value.v.is_active = "false"

\* C3: a poll of wait_for_completion whose status reports is_active false is
\* followed at once by one /latest_answer request, with no sleep and no
\* further /is_active request, and the value of that get_latest_answer call
\* is what wait_for_completion returns.
C3_ReturnsLatestAnswer ==
    /\ [][ /\ (pc = "wait_poll" /\ pc' # pc /\ ReportsNotBusy(status'))
               => pc' = "wait_answer"
           /\ (pc = "wait_answer" /\ pc' # pc)
               => /\ pc' = "returned"
                  /\ requests' = Append(requests, AnswerRequest)
                  /\ hist'.sleeps = hist.sleeps
                  /\ hist'.polls = hist.polls
                  /\ last_call'.op = "get_latest_answer"
                  /\ result' = last_call'.result ]_vars
    /\ [](pc = "returned" /\ ReportsNotBusy(status) =>
            /\ result = last_call.result
            /\ last_call.op = "get_latest_answer"
            /\ hist.sleeps = hist.polls - 1
            /\ Len(requests) = hist.polls + 1
            /\ \A i \in 1 .. hist.polls : requests[i] = StatusRequest
            /\ requests[Len(requests)] = AnswerRequest)

C3_Witness ==
    /\ pc = "returned"
    /\ ReportsNotBusy(status)
    /\ hist.polls = 2
    /\ ReturnedDict(result)
    /\ "answer" \in DOMAIN result.value.v

-----------------------------------------------------------------------------
(* C4 *)

WaitRunning == {"wait_test", "wait_poll", "wait_answer", "wait_sleep"}
WaitStep == wait_test \/ wait_poll \/ wait_answer \/ wait_sleep

\* C4: against a status source that reports busy on every poll, with status
\* calls taking no time, wait_for_completion terminates (it is never stuck,
\* each sleep moves the elapsed time up by one poll interval, and the elapsed
\* time stays below timeout plus one poll interval while it runs), returns
\* None without any /latest_answer request, and returns between `timeout`
\* and `timeout` plus one poll interval after it started.
C4_TimesOut ==
    (hist.all_busy /\ hist.call_time = 0) =>
        /\ pc \in WaitRunning =>
             /\ ENABLED WaitStep
             /\ pc # "wait_answer"
             /\ Elapsed = hist.sleeps * poll_interval
             /\ Elapsed < timeout + poll_interval
        /\ pc = "returned" =>
             /\ result = Return(None)
             /\ \A i \in 1 .. Len(requests) : requests[i] = StatusRequest
             /\ timeout <= Elapsed
             /\ Elapsed <= timeout + poll_interval

C4_Witness ==
    /\ pc = "returned"
    /\ hist.all_busy /\ hist.call_time = 0
    /\ hist.polls >= 2
    /\ timeout = 3 /\ poll_interval = 2 /\ Elapsed = 4
    /\ result = Return(None)

-----------------------------------------------------------------------------
(* C5 *)

\* C5 as claimed: demo stops after /health exactly when the health envelope
\* contains an `error` field.
C5_Original ==
    (InDemo /\ pc = "exit") =>
        Endpoints(requests) =
            IF "error" \in DOMAIN health.v THEN <<"/health">> ELSE DemoSequence

\* C5: demo issues /health, /is_active, POST /query, /latest_answer,
\* /screenshot in this order, each at most once; it stops after /health,
\* issuing none of the other four, exactly when the health envelope's `error`
\* value is truthy (an `error` key holding "", null, 0 or false does not stop
\* it); a failure of a later step never stops the sequence.
C5_DemoSequence ==
    InDemo =>
        /\ IsPrefix(Endpoints(requests), DemoSequence)
        /\ \A i \in 1 .. Len(requests) :
             requests[i].method = IF Endpoint(requests[i]) = "/query"
                                  THEN "POST" ELSE "GET"
        /\ pc = "exit" =>
             Endpoints(requests) =
                 IF "error" \in DOMAIN health.v /\ Truthy(health.v.error)
                 THEN <<"/health">> ELSE DemoSequence

C5_Witness ==
    /\ InDemo /\ pc = "exit"
    /\ "error" \in DOMAIN health.v
    /\ Endpoints(requests) = DemoSequence
    /\ last_call.result = Return(None)

-----------------------------------------------------------------------------
(* C6 *)

UsageLine == "Usage: python tutorial_poc.py query <text>"

\* C6: `query` with no text arguments prints the usage message and exits with
\* status 1 without any HTTP request, whatever --url is.
C6_QueryNeedsText ==
    (pc = "exit" /\ argv.command = "query" /\ argv.args = <<>>) =>
        /\ exit_code = 1
        /\ requests = <<>>
        /\ last_call = NoCall
        /\ \E i \in 1 .. Len(stdout) : stdout[i] = UsageLine

C6_Witness ==
    /\ pc = "exit" /\ argv.command = "query" /\ argv.args = <<>>
    /\ argv.url.given
    /\ exit_code = 1

-----------------------------------------------------------------------------
(* C7 *)

QueryWithoutText == argv.command = "query" /\ argv.args = <<>>

\* C7 as claimed: exit code 1 exactly for `query` without text, 0 for every
\* other invocation, a command word outside the accepted set included.
C7_Original ==
    pc = "exit" => exit_code = IF QueryWithoutText THEN 1 ELSE 0

\* the screenshot command was given a path that cannot be opened and got a
\* response with a status below 400
ScreenshotUnwritable ==
    /\ argv.command = "screenshot" /\ argv.args # <<>> /\ argv.args[1] \in BadPaths
    /\ last_call.op = "get_screenshot"
    /\ IsResponse(LastX) /\ ~Is4xx5xx(LastX.status_code)

\* C7: for a command line made of a command word, positional arguments and
\* an optional --url, the exit code is 1 exactly when `query` is invoked
\* without text or when `screenshot <path>` got a response with status below
\* 400 and the path cannot be opened for writing (the OSError is not caught),
\* 2 exactly when the command word is outside the accepted set (no request
\* is issued then), and 0 for every other invocation, those whose HTTP
\* request fails included.
C7_ExitCodes ==
    /\ pc = "exit" =>
         /\ exit_code = IF argv.command \notin Choices \cup {NoCommand} THEN 2
                        ELSE IF QueryWithoutText \/ ScreenshotUnwritable THEN 1
                        ELSE 0
         /\ argv.command \notin Choices \cup {NoCommand} => requests = <<>>
    /\ pc # "exit" => exit_code = NoExit

C7_Witness ==
    /\ pc = "exit"
    /\ argv.command = "health"
    /\ last_call.op = "health_check"
    /\ LastX.kind = "ConnectionError"
    /\ exit_code = 0

-----------------------------------------------------------------------------
(* C8 *)

BaseOf(req) == SubSeq(req.url, 1, Len(req.url) - 1)

\* C8: the base URL of every request of a CLI invocation comes from --url
\* when it is given, else from AGENTIC_SEEK_URL when that is set, else it is
\* http://localhost:7777.
C8_EnvironmentUrl ==
    pc \in CliPcs =>
        \A i \in 1 .. Len(requests) :
            BaseOf(requests[i]) =
                IF argv.url.given THEN rstrip(argv.url.v)
                ELSE IF env_url.given THEN rstrip(env_url.v)
                ELSE DefaultUrl

-----------------------------------------------------------------------------
(* C9 *)

\* the save_path of the get_screenshot call a step from pc makes
SavePathAt == IF pc = "dispatch" THEN SavePath ELSE None

\* C9 as claimed: get_screenshot returns the bytes on a 2xx response and None
\* on any transport failure or non-2xx response.
C9_Original ==
    last_call.op = "get_screenshot" =>
        last_call.result =
            IF IsResponse(LastX) /\ Is2xx(LastX.status_code)
            THEN Return(Bytes(LastX.content)) ELSE Return(None)

\* C9: get_screenshot returns None on a transport failure or a 4xx/5xx
\* response, and then no file changes and no exception reaches the caller;
\* on a response with a status below 400 it returns the response bytes,
\* unless a path is given that cannot be opened for writing, in which case
\* the OSError reaches the caller and no file changes; the file at save_path
\* is written, with exactly the returned bytes, only when a path is given and
\* the status was below 400.
C9_Screenshot ==
    [][ (last_call'.op = "get_screenshot" /\ requests' # requests) =>
          LET x == last_call'.exchange
              ok == IsResponse(x) /\ ~Is4xx5xx(x.status_code)
              bad == SavePathAt \in {Str(p) : p \in BadPaths}
          IN /\ last_call'.result =
                   IF ~ok THEN Return(None)
                   ELSE IF bad THEN Raise("FileNotFoundError")
                   ELSE Return(Bytes(x.content))
             /\ (~ok \/ bad) => files' = files
             /\ \A p \in Paths :
                  files'[p] # files[p] =>
                      /\ ok
                      /\ SavePathAt = Str(p)
                      /\ files'[p] = FileWith(last_call'.result.value.v)
             /\ (ok /\ SavePathAt \in {Str(p) : p \in Paths}) =>
                  files'[SavePathAt.v] = FileWith(x.content) ]_vars

C9_Witness ==
    /\ last_call.op = "get_screenshot"
    /\ IsResponse(LastX) /\ LastX.status_code = 304
    /\ argv.command = "screenshot" /\ argv.args # <<>> /\ argv.args[1] = "a"
    /\ files["a"] = FileWith(LastX.content)
    /\ LastX.content = <<1, 2>>

-----------------------------------------------------------------------------
(* C10 *)

\* C10: a poll of wait_for_completion whose status has no `is_active` key,
\* as every error envelope has, is treated as busy: no /latest_answer request
\* follows it and the loop goes on to sleep; against a service that is
\* unreachable on every poll the call returns None, at the timeout, having
\* issued nothing but /is_active requests.
C10_MissingKeyIsBusy ==
    /\ [][ (pc = "wait_poll" /\ pc' # pc /\ ReturnedDict(status')
            /\ "is_active" \notin DOMAIN status'.value.v)
           => /\ pc' = "wait_sleep"
              /\ requests' = Append(requests, StatusRequest) ]_vars
    /\ []((last_call.op = "get_status" /\ Failed(LastX)) =>
            /\ ReturnedDict(last_call.result)
            /\ "is_active" \notin DOMAIN LastDict)
    /\ []((pc = "returned" /\ hist.all_down) =>
            /\ result = Return(None)
            /\ Elapsed >= timeout
            /\ hist.sleeps = hist.polls
            /\ \A i \in 1 .. Len(requests) : requests[i] = StatusRequest)

C10_Witness ==
    /\ pc = "returned"
    /\ hist.all_down
    /\ hist.polls >= 2
    /\ LastX.kind = "ConnectionError"
    /\ result = Return(None)

====
